---- MODULE Spec2Model ----
(***************************************************************************)
(* Request-lifecycle layer of ASTRA AI:                                    *)
(*   - Database (modules/database.py): chats/messages tables, the write    *)
(*     queue with its background writer thread, close();                   *)
(*   - OllamaClient.chat (modules/ollama_client.py): retry with backoff;   *)
(*   - ChatWindow (modules/ui/main_window.py) with LLMStreamWorker and     *)
(*     SearchWorker (modules/ui/workers.py): one chat turn.                *)
(* Strings are sequences of tokens, so that concatenation, tag removal and *)
(* stripping are computed instead of assumed.                              *)
(***************************************************************************)
EXTENDS Integers, Sequences, FiniteSets, Bags, TLC

(* ------------------------------ bounds -------------------------------- *)
\* number of threads that call save_message / create_chat concurrently
NumCallers == 2
\* number of Database calls (save_message, create_chat) started over a run
MaxCalls == 2
\* number of close() calls the owner of the Database starts
MaxCloses == 2

(* ------------------------------ values -------------------------------- *)
NoneVal == "None"
ChatNames == {"A", "B"}
\* the (role, content) pairs the callers of the Database submit
Submissions == {[role |-> "user", content |-> <<"a">>],
                [role |-> "assistant", content |-> <<"b">>]}
Callers == 1..NumCallers

\* a write job is the tuple (chat_name, role, content) of database.py:245;
\* turn is a history field (0 outside the UI) that no operation reads
Job(chat, role, content, turn) ==
    [chat |-> chat, role |-> role, content |-> content, turn |-> turn]
\* the None that close() puts into the queue
Sentinel == [chat |-> NoneVal, role |-> NoneVal, content |-> <<>>, turn |-> 0]

VARIABLES
    chats,        \* rows of table chats: set of [id, name]
    chat_seq,     \* AUTOINCREMENT counter of table chats
    messages,     \* rows of table messages in id order: [chat_id, role, content, turn]
    write_queue,  \* Database._write_queue (FIFO contents)
    unfinished,   \* Queue.unfinished_tasks of _write_queue
    stop_event,   \* Database._stop_event
    conn,         \* Database._conn is not None
    writer_pc,    \* position of _writer_loop: "get" (in the loop), "exited"
    caller,       \* per calling thread: position inside save_message
    calls,        \* number of Database calls started so far
    closer,       \* position of the thread that calls close(), and its count
    enq_log,      \* history: every put() into _write_queue, in order
    create_log,   \* history: every create_chat(name) call with its result
    \* --- OllamaClient.chat ---
    chat_pc,      \* "idle", "post" (about to send attempt), "returned", "raised"
    attempt,      \* loop variable attempt of chat()
    retry_delay,  \* local retry_delay of chat(), in units of 1/DelayScale s
    chat_calls,   \* number of chat() calls started
    chat_log,     \* history of the current call: outcome of every request sent
    chat_sleeps,  \* history of the current call: every time.sleep(d), in order
    chat_result,  \* what the current call returned
    \* --- OllamaClient.chat_stream consumed by LLMStreamWorker.run ---
    stream_pc,      \* "idle", "post", "lines", "returned", "emitted"
    stream_attempt, \* loop variable attempt of chat_stream()
    stream_delay,   \* local retry_delay of chat_stream(), in 1/DelayScale s
    stream_runs,    \* number of LLMStreamWorker.run calls started
    stream_lines,   \* lines read from the current response so far
    stream_posts,   \* history: every request sent, with the yields before it
    stream_yields,  \* history: every value yielded, in order
    stream_failed,  \* history: how the stream failed (None: it has not)
    response_open,  \* a streamed HTTP response is held and not released
    cancel_requested, \* the caller has asked to cancel the stream
    worker_signals, \* history: signals LLMStreamWorker.run has emitted
    \* --- Database: table memory, backups, the guard _db_lock ---
    memory,       \* rows of table memory in id order (their ids)
    memory_seq,   \* AUTOINCREMENT counter of table memory
    backups,      \* number of astra_backup_*.db files in the backup directory
    last_op,      \* history: the last memory / delete call, with its effect
    db_lock,      \* owner of Database._db_lock (None: free)
    thread,       \* per calling thread: its position relative to _db_lock
    \* --- OllamaClient._get_timeout ---
    timeout_model,  \* the model identity _get_timeout is called with
    timeout_result, \* what it returned (0: not called yet)
    \* --- the backup directory ---
    backup_dir,  \* the backup files, the clock, and the history of _backup_database calls
    \* --- the writer thread with failing writes ---
    write_log,  \* history: every job the writer took, with how its write ended
    \* --- ChatWindow, its workers and threads ---
    current_chat,           \* ChatWindow.current_chat
    is_waiting,             \* ChatWindow.is_waiting_for_response
    current_response,       \* ChatWindow._current_response
    generation_id,          \* ChatWindow._generation_id (0: attribute not set)
    response_target_chat,   \* ChatWindow._response_target_chat (None: not set)
    llm_worker,             \* ChatWindow.llm_worker (0: None), a worker index
    search_worker,          \* ChatWindow.search_worker (0: None), a worker index
    llm,          \* the LLMStreamWorker objects created so far
    search,       \* the SearchWorker objects created so far
    main_events,  \* signals queued for the GUI thread, in posting order
    saves,        \* bag of save_message calls of started, not yet run threads
    crashed,      \* an exception left a slot: PyQt6 aborts the process
    message_input,  \* message_input holds text (after strip)
    input_enabled,  \* message_input.isEnabled()
    turn,         \* history: number of turns send_message has started
    turn_chat,    \* history per turn: current_chat when send_message started it
    accepted,     \* history: chunks appended to _current_response
    stops,        \* history: every _stop_generation call (turn, text, target, generation)
    interfered,   \* history: the user stopped or switched during a turn
    user_actions  \* history: number of send_message and select_chat calls

dbvars == <<chats, chat_seq, messages, write_queue, unfinished, stop_event,
            conn, writer_pc>>
clientvars == <<caller, calls, closer, create_log>>
streamvars == <<stream_pc, stream_attempt, stream_delay, stream_runs,
                stream_lines, stream_posts, stream_yields, stream_failed,
                response_open, cancel_requested, worker_signals>>
chatcallvars == <<chat_pc, attempt, retry_delay, chat_calls, chat_log,
                  chat_sleeps, chat_result>>
guardvars == <<db_lock, thread>>
memvars == <<memory, memory_seq, backups, last_op>>
timeoutvars == <<timeout_model, timeout_result>>
backupvars == <<backup_dir>>
writervars == <<write_log>>
chatvars == <<chatcallvars, streamvars, memvars, guardvars, timeoutvars,
              backupvars,
              writervars>>
uivars == <<current_chat, is_waiting, current_response, generation_id,
            response_target_chat, llm_worker, search_worker, llm, search,
            main_events, saves, message_input, input_enabled, turn, turn_chat,
            accepted, stops, interfered, user_actions>>

(* ------------------------------ helpers ------------------------------- *)
Range(s) == {s[i] : i \in 1..Len(s)}

RECURSIVE SelectSeq2(_, _)
\* the subsequence of s whose elements belong to the set keep
SelectSeq2(s, keep) ==
    IF s = <<>> THEN <<>>
    ELSE IF Head(s) \in keep THEN <<Head(s)>> \o SelectSeq2(Tail(s), keep)
         ELSE SelectSeq2(Tail(s), keep)

\* SELECT id FROM chats WHERE name = ?   (None when there is no row)
get_chat_id_unlocked(name) ==
    IF \E r \in chats : r.name = name
    THEN (CHOOSE r \in chats : r.name = name).id
    ELSE 0

\* get_chat_messages(chat_name): SELECT role, content FROM messages WHERE
\* chat_id = ? ORDER BY id ASC; [] when there is no chat of that name
get_chat_messages(name) ==
    IF get_chat_id_unlocked(name) = 0 THEN <<>>
    ELSE [i \in 1..Len(SelectSeq2(messages,
                 {m \in Range(messages) : m.chat_id = get_chat_id_unlocked(name)})) |->
            [role |-> SelectSeq2(messages,
                 {m \in Range(messages) : m.chat_id = get_chat_id_unlocked(name)})[i].role,
             content |-> SelectSeq2(messages,
                 {m \in Range(messages) : m.chat_id = get_chat_id_unlocked(name)})[i].content]]

\* queue.Queue.put at the head of the queue
QueuePutFront(q, job) == <<job>> \o q
QueuePut(q, job) == Append(q, job)

(* ---------------------------- create_chat ----------------------------- *)
\* INSERT INTO chats without the UNIQUE(name) constraint
InsertChatNoUnique(name) ==
    /\ chats' = chats \cup {[id |-> chat_seq + 1, name |-> name]}
    /\ chat_seq' = chat_seq + 1
\* INSERT INTO chats (name, ...): the UNIQUE constraint on name raises
\* IntegrityError and leaves the table unchanged when the name exists
InsertChat(name) ==
    IF \E r \in chats : r.name = name
    THEN UNCHANGED <<chats, chat_seq>>
    ELSE /\ chats' = chats \cup {[id |-> chat_seq + 1, name |-> name]}
         /\ chat_seq' = chat_seq + 1

\* what Database.create_chat returns: lastrowid, or None on IntegrityError
create_chat_result(name) ==
    IF \E r \in chats : r.name = name THEN 0 ELSE chat_seq + 1

\* a thread calls Database.create_chat(name); the whole body runs under _db_lock
create_chat(t, name) ==
    /\ caller[t].pc = "idle"
    /\ calls < MaxCalls
    /\ calls' = calls + 1
    /\ InsertChat(name)
    /\ create_log' = Append(create_log, [name |-> name, ret |-> create_chat_result(name)])
    /\ conn' = TRUE
    /\ UNCHANGED <<messages, write_queue, unfinished, stop_event, writer_pc,
                   caller, closer, enq_log, crashed, chatvars, uivars>>

(* ---------------------------- save_message ---------------------------- *)
\* save_message entry: chat_id = self.get_chat_id(chat_name)
save_message_begin(t, chat, role, content) ==
    /\ caller[t].pc = "idle"
    /\ calls < MaxCalls
    /\ calls' = calls + 1
    /\ caller' = [caller EXCEPT ![t] =
          [pc |-> IF get_chat_id_unlocked(chat) # 0 THEN "put" ELSE "create",
           job |-> Job(chat, role, content, 0)]]
    /\ conn' = TRUE
    /\ UNCHANGED <<chats, chat_seq, messages, write_queue, unfinished,
                   stop_event, writer_pc, closer, enq_log, create_log,
                   crashed, chatvars, uivars>>

\* if not chat_id: chat_id = self.create_chat(chat_name)
save_message_create(t) ==
    /\ caller[t].pc = "create"
    /\ InsertChat(caller[t].job.chat)
    /\ caller' = [caller EXCEPT ![t].pc =
          IF create_chat_result(caller[t].job.chat) # 0 THEN "put" ELSE "retry"]
    /\ conn' = TRUE
    /\ UNCHANGED <<messages, write_queue, unfinished, stop_event, writer_pc,
                   calls, closer, enq_log, create_log, crashed,
                   chatvars, uivars>>

\* save_message without the second lookup: the call gives up
RetryLookupNone(name) == 0
\* chat_id = self.get_chat_id(chat_name), after the sleep
RetryLookup(name) == get_chat_id_unlocked(name)

\* if not chat_id: time.sleep(0.1); chat_id = self.get_chat_id(chat_name)
save_message_retry(t) ==
    /\ caller[t].pc = "retry"
    /\ caller' = [caller EXCEPT ![t].pc =
          IF RetryLookup(caller[t].job.chat) # 0 THEN "put" ELSE "idle"]
    /\ conn' = TRUE
    /\ UNCHANGED <<chats, chat_seq, messages, write_queue, unfinished,
                   stop_event, writer_pc, calls, closer, enq_log,
                   create_log, crashed, chatvars, uivars>>

\* if chat_id: self._write_queue.put((chat_name, role, content)); return True
save_message_put(t) ==
    /\ caller[t].pc = "put"
    /\ write_queue' = QueuePut(write_queue, caller[t].job)
    /\ unfinished' = unfinished + 1
    /\ enq_log' = Append(enq_log, [job |-> caller[t].job, by |-> t])
    /\ caller' = [caller EXCEPT ![t].pc = "idle"]
    /\ UNCHANGED <<chats, chat_seq, messages, stop_event, conn, writer_pc,
                   calls, closer, create_log, crashed, chatvars,
                   uivars>>

(* ------------------------- the writer thread -------------------------- *)
\* _write_message_sync under _db_lock: find the chat by name or create it
\* (_create_chat_unlocked), INSERT INTO messages, commit
write_message_sync(job) ==
    /\ InsertChat(job.chat)
    /\ messages' = Append(messages,
          [chat_id |-> IF get_chat_id_unlocked(job.chat) # 0
                       THEN get_chat_id_unlocked(job.chat)
                       ELSE chat_seq + 1,
           role |-> job.role, content |-> job.content, turn |-> job.turn])

\* one iteration of _writer_loop: job = self._write_queue.get(timeout=0.5);
\* on queue.Empty leave the loop only when stop is set; on the sentinel
\* task_done() and leave; else _write_message_sync(job) and task_done().
\* get() is taken together with the write: only this thread reads the queue.
writer_loop ==
    /\ ~crashed
    /\ writer_pc = "get"
    /\ IF write_queue = <<>>
       THEN /\ stop_event
            /\ writer_pc' = "exited"
            /\ UNCHANGED <<write_queue, unfinished, chats, chat_seq, messages, conn>>
       ELSE /\ write_queue' = Tail(write_queue)
            /\ unfinished' = unfinished - 1
            /\ IF Head(write_queue) = Sentinel
               THEN /\ writer_pc' = "exited"
                    /\ UNCHANGED <<chats, chat_seq, messages, conn>>
               ELSE /\ write_message_sync(Head(write_queue))
                    /\ conn' = TRUE
                    /\ UNCHANGED writer_pc
    /\ UNCHANGED <<stop_event, enq_log, crashed, clientvars, chatvars, uivars>>

(* ------------------------------- close -------------------------------- *)
\* close(), step 1: self._write_queue.put(None)
close_put ==
    /\ closer.pc = "idle"
    /\ closer.started < MaxCloses
    /\ write_queue' = QueuePut(write_queue, Sentinel)
    /\ unfinished' = unfinished + 1
    /\ enq_log' = Append(enq_log, [job |-> Sentinel, by |-> 0])
    /\ closer' = [closer EXCEPT !.pc = "join", !.started = @ + 1]
    /\ UNCHANGED <<chats, chat_seq, messages, stop_event, conn, writer_pc,
                   caller, calls, create_log, crashed, chatvars,
                   uivars>>

\* Queue.join() without waiting
QueueJoinNoWait == TRUE
\* Queue.join(): blocks until unfinished_tasks is 0
QueueJoin == unfinished = 0

\* close(), steps 2..4: join the queue, set the stop event, join the writer
\* thread (at most 3 s), close the connection
close_finish ==
    /\ closer.pc = "join"
    /\ QueueJoin
    /\ stop_event' = TRUE
    /\ conn' = FALSE
    /\ closer' = [closer EXCEPT !.pc = "idle", !.returned = @ + 1]
    /\ UNCHANGED <<chats, chat_seq, messages, write_queue, unfinished,
                   writer_pc, caller, calls, enq_log, create_log,
                   crashed, chatvars, uivars>>


(* ------------------- table memory, backups, deletes ------------------- *)
\* _backup_database keeps the 5 newest backup files
BackupsKept == 5
\* rows of table memory when the run starts
MaxMemory == 3
\* largest max_entries passed to trim_old_memory
MaxTrim == 4
\* how shutil.copy2 in _backup_database can end
BackupOutcomes == {"ok", "failed"}

Min(a, b) == IF a < b THEN a ELSE b
Max(a, b) == IF a > b THEN a ELSE b

\* _backup_database(): copy the store, then unlink all but the BackupsKept
\* newest copies; any exception is logged and swallowed (returns False)
backup_database(outcome) ==
    backups' = IF outcome = "ok" THEN Min(backups + 1, BackupsKept) ELSE backups

\* the rows left by DELETE FROM memory WHERE id IN (SELECT id FROM memory
\* ORDER BY id ASC LIMIT to_delete), keeping the newest rows instead
trim_rows_newest(rows, max_entries) ==
    IF Len(rows) <= max_entries THEN rows
    ELSE SubSeq(rows, 1, Len(rows) - Min(Len(rows) - max_entries, Len(rows)))
\* the rows left by trim_old_memory(max_entries): nothing is deleted when
\* count <= max_entries, else DELETE FROM memory WHERE id IN (SELECT id FROM
\* memory ORDER BY id ASC LIMIT count - max_entries)
trim_rows(rows, max_entries) ==
    IF Len(rows) <= max_entries THEN rows
    ELSE SubSeq(rows, Min(Len(rows) - max_entries, Len(rows)) + 1, Len(rows))

\* the record of one call in last_op
OpRecord(op, arg, backup, after, ret) ==
    [op |-> op, arg |-> arg, backup |-> backup, before |-> memory,
     after |-> after, ret |-> ret,
     rows_before |-> Len(memory) + Cardinality(chats) + Len(messages)]

\* the part of every memory / delete call outside the tables it writes
StoreCall ==
    /\ calls < MaxCalls
    /\ calls' = calls + 1
    /\ conn' = TRUE
    /\ UNCHANGED <<write_queue, unfinished, stop_event, writer_pc, caller,
                   closer, create_log, enq_log, crashed, chatcallvars,
                   streamvars, guardvars, timeoutvars, writervars, backupvars, uivars>>

\* add_memory(content): INSERT INTO memory, commit
add_memory ==
    /\ StoreCall
    /\ memory' = Append(memory, memory_seq + 1)
    /\ memory_seq' = memory_seq + 1
    /\ last_op' = OpRecord("add_memory", 0, "none", memory', 1)
    /\ UNCHANGED <<chats, chat_seq, messages, backups>>

\* delete_memory_by_id(memory_id): DELETE FROM memory WHERE id = ?, commit,
\* return cursor.rowcount > 0
delete_memory_by_id(memory_id) ==
    /\ StoreCall
    /\ memory' = SelectSeq2(memory, Range(memory) \ {memory_id})
    /\ last_op' = OpRecord("delete_memory_by_id", memory_id, "none", memory',
                           IF memory_id \in Range(memory) THEN 1 ELSE 0)
    /\ UNCHANGED <<chats, chat_seq, messages, memory_seq, backups>>

\* clear_memory(): _backup_database(), then DELETE FROM memory, commit
clear_memory(outcome) ==
    /\ StoreCall
    /\ backup_database(outcome)
    /\ memory' = <<>>
    /\ last_op' = OpRecord("clear_memory", 0, outcome, memory', 1)
    /\ UNCHANGED <<chats, chat_seq, messages, memory_seq>>

\* trim_old_memory(max_entries): returns the rowcount of the DELETE
trim_old_memory(max_entries) ==
    /\ StoreCall
    /\ memory' = trim_rows(memory, max_entries)
    /\ last_op' = OpRecord("trim_old_memory", max_entries, "none", memory',
                           Len(memory) - Len(memory'))
    /\ UNCHANGED <<chats, chat_seq, messages, memory_seq, backups>>

\* delete_chat(chat_name): _backup_database(), then under the guard: return
\* False when there is no such chat, else DELETE FROM chats WHERE id = ?
\* (the messages of the chat go with it: ON DELETE CASCADE), commit
delete_chat(chat_name, outcome) ==
    /\ StoreCall
    /\ backup_database(outcome)
    /\ chats' = {r \in chats : r.name # chat_name}
    /\ messages' = SelectSeq2(messages,
          {m \in Range(messages) : m.chat_id # get_chat_id_unlocked(chat_name)})
    /\ last_op' = OpRecord("delete_chat", 0, outcome, memory,
                           IF get_chat_id_unlocked(chat_name) # 0 THEN 1 ELSE 0)
    /\ UNCHANGED <<chat_seq, memory, memory_seq>>

InitMemory ==
    /\ memory = <<>>
    /\ memory_seq = 0
    /\ backups = 0
    /\ last_op = [op |-> NoneVal, arg |-> 0, backup |-> "none", before |-> <<>>,
                  after |-> <<>>, ret |-> 0, rows_before |-> 0]

(* ------------------------ the backup directory ------------------------ *)
\* number of _backup_database calls over a run
MaxBackupCalls == 3

\* backups[5:] of sorted(..., reverse=True), sorted in ascending order
\* instead: everything but the oldest names
SurplusOfOldest(files) ==
    {f \in files : Cardinality({g \in files : g.name < f.name}) >= BackupsKept}
\* backups[5:] of sorted(backup_dir.glob("astra_backup_*.db"), reverse=True):
\* everything but the BackupsKept files with the greatest names
Surplus(files) ==
    {f \in files : Cardinality({g \in files : g.name > f.name}) >= BackupsKept}

\* shutil.copy2(self.db_path, backup_file): a file of that name is replaced
CopyTo(files, name, made) ==
    {f \in files : f.name # name} \cup {[name |-> name, made |-> made]}

\* one call of _backup_database(). now is datetime.now() to the second, the
\* name of the copy; outcome is how the copy ends (an exception is logged
\* and the call returns False before it prunes); unlink_fails is whether
\* old_backup.unlink() raises, which the loop passes over.
backup_run(now, outcome, unlink_fails) ==
    /\ backup_dir.calls < MaxBackupCalls
    /\ now >= 1
    /\ backup_dir' =
          IF outcome # "ok"
          THEN [backup_dir EXCEPT !.calls = @ + 1, !.clock = now,
                                  !.clock_back = @ \/ now < backup_dir.clock]
          ELSE [files |->
                    IF unlink_fails
                    THEN CopyTo(backup_dir.files, now, backup_dir.made + 1)
                    ELSE CopyTo(backup_dir.files, now, backup_dir.made + 1)
                            \ Surplus(CopyTo(backup_dir.files, now, backup_dir.made + 1)),
                made |-> backup_dir.made + 1,
                clock |-> now,
                calls |-> backup_dir.calls + 1,
                pruned |->
                    IF unlink_fails THEN backup_dir.pruned
                    ELSE backup_dir.pruned \cup
                         {f.made : f \in Surplus(CopyTo(backup_dir.files, now,
                                                        backup_dir.made + 1))},
                last |-> now,
                unlink_failed |-> backup_dir.unlink_failed
                    \/ (unlink_fails /\ Surplus(CopyTo(backup_dir.files, now,
                                                 backup_dir.made + 1)) # {}),
                clock_back |-> backup_dir.clock_back \/ now < backup_dir.clock]
    /\ UNCHANGED <<dbvars, clientvars, enq_log, crashed, chatcallvars,
                   streamvars, memvars, guardvars, timeoutvars, writervars, uivars>>

InitBackup ==
    backup_dir = [files |-> {}, made |-> 0, clock |-> 0, calls |-> 0,
                  pruned |-> {}, last |-> 0, unlink_failed |-> FALSE,
                  clock_back |-> FALSE]

(* ------------- the writer thread with failing writes ------------------ *)
\* how _write_message_sync can end for a job: committed, OperationalError
\* "database is locked" from the store, any other exception
WriteOutcomes == {"ok", "busy", "error"}
\* number of times _write_message_sync runs its statements for one job:
\* there is no loop around them
WriteAttempts == 1

\* the writer after a job whose write failed, leaving its loop
AfterFailureExit == "exited"
\* the writer after a job whose write failed: the except clauses of
\* _write_message_sync and _writer_loop log, finally calls task_done(), and
\* the while loop goes on
AfterFailure == "get"

\* one iteration of _writer_loop, the write ending in outcome. A failing
\* write raises at its first writing statement: nothing of it is committed.
writer_step(outcome) ==
    /\ writer_pc = "get"
    /\ IF write_queue = <<>>
       THEN /\ stop_event
            /\ writer_pc' = "exited"
            /\ UNCHANGED <<write_queue, unfinished, chats, chat_seq, messages,
                           conn, write_log>>
       ELSE /\ write_queue' = Tail(write_queue)
            /\ unfinished' = unfinished - 1
            /\ IF Head(write_queue) = Sentinel
               THEN /\ writer_pc' = "exited"
                    /\ UNCHANGED <<chats, chat_seq, messages, conn, write_log>>
               ELSE /\ IF outcome = "ok"
                       THEN write_message_sync(Head(write_queue))
                       ELSE UNCHANGED <<chats, chat_seq, messages>>
                    /\ conn' = TRUE
                    /\ write_log' = Append(write_log,
                          [job |-> Head(write_queue), outcome |-> outcome,
                           attempts |-> WriteAttempts,
                           created |-> outcome = "ok" /\
                               get_chat_id_unlocked(Head(write_queue).chat) = 0])
                    /\ writer_pc' = IF outcome = "ok" THEN "get" ELSE AfterFailure
    /\ UNCHANGED <<stop_event, enq_log, crashed, clientvars, chatcallvars,
                   streamvars, memvars, guardvars, timeoutvars, backupvars,
                   uivars>>

\* rename_chat(old_name, new_name): UPDATE chats SET name = ? WHERE name = ?
\* under the guard; IntegrityError (the new name exists) returns False,
\* else cursor.rowcount > 0
rename_chat(old_name, new_name) ==
    /\ StoreCall
    /\ chats' = IF \E r \in chats : r.name = new_name
                THEN chats
                ELSE {IF r.name = old_name THEN [r EXCEPT !.name = new_name] ELSE r :
                         r \in chats}
    /\ last_op' = OpRecord("rename_chat", 0, "none", memory,
                           IF chats' # chats THEN 1 ELSE 0)
    /\ UNCHANGED <<chat_seq, messages, memory, memory_seq, backups>>

InitWriter == write_log = <<>>

(* ------------------ the guard _db_lock, step by step ------------------ *)
\* db_lock holds the thread that owns _db_lock: 0 when it is free, a caller,
\* or the writer thread
WriterThread == NumCallers + 1

\* a thread calls save_message(chat, role, content) or add_memory(content):
\* both start at  with self._db_lock
guard_call(t, op, job) ==
    /\ thread[t].pc = "out"
    /\ calls < MaxCalls
    /\ calls' = calls + 1
    /\ thread' = [thread EXCEPT ![t] =
          [pc |-> "acquire", op |-> op,
           stage |-> IF op = "save_message" THEN "get_chat_id" ELSE op,
           job |-> job]]
    /\ UNCHANGED <<dbvars, caller, closer, create_log, enq_log, crashed, db_lock,
                   chatcallvars, streamvars, memvars, timeoutvars, writervars, backupvars, uivars>>

\* with self._db_lock: conn = self._get_connection(); the thread blocks in
\* the acquire for as long as another thread owns the guard
guard_enter(t) ==
    /\ thread[t].pc = "acquire"
    /\ db_lock = 0
    /\ db_lock' = t
    /\ conn' = TRUE
    /\ thread' = [thread EXCEPT ![t].pc = "inside"]
    /\ UNCHANGED <<chats, chat_seq, messages, write_queue, unfinished,
                   stop_event, writer_pc, clientvars, enq_log, crashed,
                   chatcallvars, streamvars, memvars, timeoutvars, writervars, backupvars, uivars>>

\* the rest of the guarded section, on the connection taken at its start,
\* and the release of the guard. On a connection closed in between the
\* statement raises sqlite3.ProgrammingError: get_chat_id and add_memory
\* catch it (None, False), create_chat lets it through to save_message,
\* which returns False.
guard_apply(t) ==
    /\ thread[t].pc = "inside"
    /\ db_lock' = 0
    /\ IF thread[t].stage = "add_memory"
       THEN /\ memory' = IF conn THEN Append(memory, memory_seq + 1) ELSE memory
            /\ memory_seq' = IF conn THEN memory_seq + 1 ELSE memory_seq
            /\ thread' = [thread EXCEPT ![t].pc = "out"]
            /\ UNCHANGED <<chats, chat_seq>>
       ELSE IF thread[t].stage = "create_chat"
       THEN /\ IF conn THEN InsertChat(thread[t].job.chat)
                       ELSE UNCHANGED <<chats, chat_seq>>
            /\ thread' = [thread EXCEPT ![t].pc =
                  IF ~conn THEN "out"
                  ELSE IF create_chat_result(thread[t].job.chat) # 0 THEN "put"
                  ELSE "sleep"]
            /\ UNCHANGED <<memory, memory_seq>>
       ELSE \* get_chat_id, the first time or after the sleep
            /\ thread' = [thread EXCEPT
                  ![t].pc = IF conn /\ get_chat_id_unlocked(thread[t].job.chat) # 0
                            THEN "put"
                            ELSE IF thread[t].stage = "get_chat_id"
                            THEN "acquire" ELSE "out",
                  ![t].stage = IF conn /\ get_chat_id_unlocked(thread[t].job.chat) # 0
                               THEN @ ELSE "create_chat"]
            /\ UNCHANGED <<chats, chat_seq, memory, memory_seq>>
    /\ UNCHANGED <<messages, write_queue, unfinished, stop_event, conn,
                   writer_pc, clientvars, enq_log, crashed, backups, last_op,
                   chatcallvars, streamvars, timeoutvars, writervars, backupvars, uivars>>

\* save_message after a create_chat that returned None: time.sleep(0.1),
\* then chat_id = self.get_chat_id(chat_name)
guard_wake(t) ==
    /\ thread[t].pc = "sleep"
    /\ thread' = [thread EXCEPT ![t].pc = "acquire", ![t].stage = "get_chat_id_again"]
    /\ UNCHANGED <<dbvars, clientvars, enq_log, crashed, db_lock, chatcallvars,
                   streamvars, memvars, timeoutvars, writervars, backupvars, uivars>>

\* save_message with a chat_id: self._write_queue.put(job); return True
guard_put(t) ==
    /\ thread[t].pc = "put"
    /\ write_queue' = QueuePut(write_queue, thread[t].job)
    /\ unfinished' = unfinished + 1
    /\ enq_log' = Append(enq_log, [job |-> thread[t].job, by |-> t])
    /\ thread' = [thread EXCEPT ![t].pc = "out"]
    /\ UNCHANGED <<chats, chat_seq, messages, stop_event, conn, writer_pc,
                   clientvars, crashed, db_lock, chatcallvars, streamvars,
                   memvars, timeoutvars, writervars, backupvars, uivars>>

\* _writer_loop up to the guard: get a job (leave on the sentinel, or on an
\* empty queue once stop is set), then _write_message_sync enters
\* with self._db_lock. The job stays at the head of write_queue until the
\* section is over: no other thread reads the queue.
guard_writer_take ==
    /\ writer_pc = "get"
    /\ IF write_queue = <<>>
       THEN /\ stop_event
            /\ writer_pc' = "exited"
            /\ UNCHANGED <<write_queue, unfinished, db_lock, conn>>
       ELSE IF Head(write_queue) = Sentinel
       THEN /\ write_queue' = Tail(write_queue)
            /\ unfinished' = unfinished - 1
            /\ writer_pc' = "exited"
            /\ UNCHANGED <<db_lock, conn>>
       ELSE /\ db_lock = 0
            /\ db_lock' = WriterThread
            /\ conn' = TRUE
            /\ writer_pc' = "inside"
            /\ UNCHANGED <<write_queue, unfinished>>
    /\ UNCHANGED <<chats, chat_seq, messages, stop_event, clientvars, enq_log,
                   crashed, thread, chatcallvars, streamvars, memvars,
                   timeoutvars, writervars, backupvars, uivars>>

\* the rest of _write_message_sync (on a closed connection the exception is
\* logged and the message is dropped), the release of the guard, task_done()
guard_writer_apply ==
    /\ writer_pc = "inside"
    /\ IF conn THEN write_message_sync(Head(write_queue))
               ELSE UNCHANGED <<chats, chat_seq, messages>>
    /\ write_queue' = Tail(write_queue)
    /\ unfinished' = unfinished - 1
    /\ db_lock' = 0
    /\ writer_pc' = "get"
    /\ UNCHANGED <<stop_event, conn, clientvars, enq_log, crashed, thread,
                   chatcallvars, streamvars, memvars, timeoutvars, writervars, backupvars, uivars>>

InitGuard ==
    /\ db_lock = 0
    /\ thread = [t \in Callers |->
                    [pc |-> "out", op |-> NoneVal, stage |-> NoneVal, job |-> Sentinel]]

(* ========================== OllamaClient.chat ========================== *)
\* config: OLLAMA_RETRY_ATTEMPTS, OLLAMA_RETRY_DELAY (seconds)
OLLAMA_RETRY_ATTEMPTS == 3
OLLAMA_RETRY_DELAY == 2
\* delays are counted in 1/DelayScale seconds, so that every d * 1.5 a call
\* can compute is a whole number of units
DelayScale == 2 ^ (OLLAMA_RETRY_ATTEMPTS - 1)
\* number of chat() calls made over a run
MaxChatCalls == 2

\* what one requests.post can end in
Outcomes == {"ok", "http_error", "bad_body", "read_timeout", "connect_timeout",
             "connection_error"}
\* the timeouts and connection failures among them
TransientFailures == {"read_timeout", "connect_timeout", "connection_error"}
\* the strings chat() returns instead of an answer
FailureStrings == {"err_http", "err_timeout", "err_connection", "err_exception",
                   "err_exhausted"}

\* the exception an outcome raises inside the try block, with its base classes
\* (requests.exceptions; a 200 body that is no JSON object raises in
\* response.json() / data.get)
Raised(outcome) ==
    CASE outcome = "read_timeout"     -> {"ReadTimeout", "Timeout", "Exception"}
      [] outcome = "connect_timeout"  -> {"ConnectTimeout", "ConnectionError",
                                          "Timeout", "Exception"}
      [] outcome = "connection_error" -> {"ConnectionError", "Exception"}
      [] outcome = "bad_body"         -> {"ValueError", "Exception"}
      [] OTHER                        -> {}

\* the except clauses of chat(), in source order
ExceptClauses == <<"Timeout", "ConnectionError", "Exception">>

\* the first except clause that matches the raised exception, 0 when none does
Handler(outcome) ==
    IF \E i \in DOMAIN ExceptClauses : ExceptClauses[i] \in Raised(outcome)
    THEN CHOOSE i \in DOMAIN ExceptClauses :
            /\ ExceptClauses[i] \in Raised(outcome)
            /\ \A j \in 1..(i - 1) : ExceptClauses[j] \notin Raised(outcome)
    ELSE 0

\* retry_delay *= 1.5, without the growth
NextDelayConstant(d) == d
\* retry_delay *= 1.5
NextDelay(d) == (d * 3) \div 2

\* what the branch taken on the last attempt returns
LastAttemptResult(outcome) ==
    CASE outcome = "http_error"             -> "err_http"
      [] Handler(outcome) = 1               -> "err_timeout"
      [] Handler(outcome) = 2               -> "err_connection"
      [] OTHER                              -> "err_exception"

\* retry_delay = self.initial_retry_delay; for attempt in range(1, max_retries + 1)
chat_begin ==
    /\ chat_pc \in {"idle", "returned"}
    /\ chat_calls < MaxChatCalls
    /\ chat_calls' = chat_calls + 1
    /\ attempt' = 1
    /\ retry_delay' = OLLAMA_RETRY_DELAY * DelayScale
    /\ chat_log' = <<>>
    /\ chat_sleeps' = <<>>
    /\ chat_result' = NoneVal
    /\ chat_pc' = IF OLLAMA_RETRY_ATTEMPTS >= 1 THEN "post" ELSE "returned"
    /\ UNCHANGED <<dbvars, clientvars, enq_log, crashed, uivars, streamvars, memvars, guardvars, timeoutvars, writervars, backupvars>>

\* one iteration of the loop: requests.post and the branch its outcome takes
chat_attempt(outcome) ==
    /\ chat_pc = "post"
    /\ chat_log' = Append(chat_log, outcome)
    /\ IF outcome = "ok"
       THEN \* return data.get("message", {}).get("content", "")
            /\ chat_result' = "content"
            /\ chat_pc' = "returned"
            /\ UNCHANGED <<attempt, retry_delay, chat_sleeps>>
       ELSE IF Raised(outcome) # {} /\ Handler(outcome) = 0
       THEN \* no except clause matches: the exception leaves chat()
            /\ chat_pc' = "raised"
            /\ UNCHANGED <<attempt, retry_delay, chat_sleeps, chat_result>>
       ELSE IF Handler(outcome) = 3
       THEN \* except Exception: return the error text, no retry
            /\ chat_result' = "err_exception"
            /\ chat_pc' = "returned"
            /\ UNCHANGED <<attempt, retry_delay, chat_sleeps>>
       ELSE IF attempt < OLLAMA_RETRY_ATTEMPTS
       THEN \* time.sleep(retry_delay); retry_delay *= 1.5; continue
            /\ chat_sleeps' = Append(chat_sleeps, retry_delay)
            /\ retry_delay' = NextDelay(retry_delay)
            /\ attempt' = attempt + 1
            /\ UNCHANGED <<chat_pc, chat_result>>
       ELSE /\ chat_result' = LastAttemptResult(outcome)
            /\ chat_pc' = "returned"
            /\ UNCHANGED <<attempt, retry_delay, chat_sleeps>>
    /\ UNCHANGED <<chat_calls, dbvars, clientvars, enq_log, crashed, uivars,
                   streamvars, memvars, guardvars, timeoutvars, writervars, backupvars>>

InitChat ==
    /\ chat_pc = "idle"
    /\ attempt = 0
    /\ retry_delay = 0
    /\ chat_calls = 0
    /\ chat_log = <<>>
    /\ chat_sleeps = <<>>
    /\ chat_result = NoneVal

(* ============================= ChatWindow ============================== *)
\* number of turns the user starts over a run
MaxTurns == 2
\* number of button presses and chat selections of the user over a run
MaxUserActions == 3

\* the text of a user message
UserText == <<"q">>
\* " [abgebrochen]", appended to a partial answer that is saved
AbortedMarker == <<" ", "[abgebrochen]">>

\* the texts of the streamed units the peer can answer a request with: plain
\* text, and text with a memory tag that spans two units and a trailing blank
Streams == { << <<"a">>, <<"b">>, <<"c">> >>,
             << <<"[MERKEN:", "x">>, <<"]", "b">>, <<" ">> >> }

RECURSIVE Flatten(_)
\* the concatenation of a sequence of chunks
Flatten(chunks) ==
    IF chunks = <<>> THEN <<>> ELSE Head(chunks) \o Flatten(Tail(chunks))

\* str.find(tok, start): first index >= start holding tok, 0 when there is none
Find(text, tok, start) ==
    IF \E i \in start..Len(text) : text[i] = tok
    THEN CHOOSE i \in start..Len(text) :
            text[i] = tok /\ \A j \in start..(i - 1) : text[j] # tok
    ELSE 0

RECURSIVE RemoveTag(_, _)
\* while tag in text: cut from the tag to the next "]"; stop when there is none
RemoveTag(text, tag) ==
    IF Find(text, tag, 1) = 0 THEN text
    ELSE IF Find(text, "]", Find(text, tag, 1)) = 0 THEN text
    ELSE RemoveTag(SubSeq(text, 1, Find(text, tag, 1) - 1)
                   \o SubSeq(text, Find(text, "]", Find(text, tag, 1)) + 1, Len(text)),
                   tag)

RECURSIVE Strip(_)
\* str.strip(): drop leading and trailing whitespace
Strip(text) ==
    IF text = <<>> THEN text
    ELSE IF Head(text) = " " THEN Strip(Tail(text))
    ELSE IF text[Len(text)] = " " THEN Strip(SubSeq(text, 1, Len(text) - 1))
    ELSE text

\* MemoryManager.remove_tags_from_response
remove_tags_from_response(text) ==
    Strip(RemoveTag(RemoveTag(text, "[MERKEN:"), "[SUCHE:"))

(* ===================== OllamaClient._get_timeout ====================== *)
\* model identities are sequences of characters
\* config.OLLAMA_TIMEOUTS, in the order of the dict
OLLAMA_TIMEOUTS == <<
    [key |-> <<"q", "w", "e", "n", "2", ".", "5", ":", "7", "b">>,
     timeout |-> 90],
    [key |-> <<"q", "w", "e", "n", "2", ".", "5", ":", "1", "4", "b">>,
     timeout |-> 120],
    [key |-> <<"q", "w", "e", "n", "2", ".", "5", ":", "3", "2", "b">>,
     timeout |-> 180],
    [key |-> <<"l", "l", "a", "m", "a", "2", ":", "7", "b">>,
     timeout |-> 90],
    [key |-> <<"l", "l", "a", "m", "a", "2", ":", "1", "3", "b">>,
     timeout |-> 120],
    [key |-> <<"m", "i", "s", "t", "r", "a", "l", ":", "7", "b">>,
     timeout |-> 90],
    [key |-> <<"l", "l", "a", "m", "a", "3", ".", "2">>,
     timeout |-> 90],
    [key |-> <<"n", "e", "u", "r", "a", "l", "-", "c", "h", "a", "t", ":", "7", "b">>,
     timeout |-> 90],
    [key |-> <<"p", "h", "i", ":", "7", "b">>,
     timeout |-> 60],
    [key |-> <<"d", "e", "f", "a", "u", "l", "t">>,
     timeout |-> 120]>>
DefaultKey == <<"d", "e", "f", "a", "u", "l", "t">>

\* identities that are no configured key
UnknownStems == {<<"g", "e", "m", "m", "a", ":", "2", "b">>,
                 <<"q", "w", "e", "n", "2", ".", "5">>,
                 <<"t", "o", "t", "a", "l", "l", "y", "-", "u", "n", "k", "n", "o", "w", "n", "-", "m", "o", "d", "e", "l", ":", "9", "9", "b">>}
\* what can stand before and after a stem in a model identity
ModelPrefixes == {<<>>, <<"x">>, <<"h", "f", "/">>}
ModelSuffixes == {<<>>, <<"-", "q", "4">>, <<":", "l", "a", "t", "e", "s", "t">>}
\* the model identities _get_timeout is called with
ModelIds ==
    {pre \o stem \o suf :
        pre \in ModelPrefixes,
        stem \in {OLLAMA_TIMEOUTS[i].key : i \in DOMAIN OLLAMA_TIMEOUTS} \cup UnknownStems,
        suf \in ModelSuffixes}

\* Python's  sub in s  on strings
Contains(sub, s) ==
    \E i \in 0..(Len(s) - Len(sub)) : SubSeq(s, i + 1, i + Len(sub)) = sub

\* the part of an identity before its first ":"
Family(s) ==
    IF \E i \in DOMAIN s : s[i] = ":"
    THEN SubSeq(s, 1, (CHOOSE i \in DOMAIN s :
                         s[i] = ":" /\ \A j \in 1..(i - 1) : s[j] # ":") - 1)
    ELSE s
\* a key matches every model of its family
KeyMatchesFamily(model_key, model) ==
    model_key # DefaultKey /\ Family(model_key) = Family(model)
\* if model_key != "default" and model_key in model
KeyMatches(model_key, model) ==
    model_key # DefaultKey /\ Contains(model_key, model)

\* _get_timeout(model): the timeout of the first key, in dict order, that
\* matches; self.model_timeouts["default"] when none does
get_timeout(model) ==
    IF \E i \in DOMAIN OLLAMA_TIMEOUTS : KeyMatches(OLLAMA_TIMEOUTS[i].key, model)
    THEN OLLAMA_TIMEOUTS[CHOOSE i \in DOMAIN OLLAMA_TIMEOUTS :
            /\ KeyMatches(OLLAMA_TIMEOUTS[i].key, model)
            /\ \A j \in 1..(i - 1) : ~KeyMatches(OLLAMA_TIMEOUTS[j].key, model)].timeout
    ELSE (CHOOSE e \in Range(OLLAMA_TIMEOUTS) : e.key = DefaultKey).timeout

\* a caller evaluates self._get_timeout(model)
resolve_timeout ==
    /\ timeout_result = 0
    /\ timeout_result' = get_timeout(timeout_model)
    /\ UNCHANGED <<timeout_model, dbvars, clientvars, enq_log, crashed,
                   chatcallvars, streamvars, memvars, guardvars, uivars, backupvars, writervars>>

InitTimeout ==
    /\ timeout_model = <<>>
    /\ timeout_result = 0

(* ====================== OllamaClient.chat_stream ======================= *)
\* number of LLMStreamWorker.run calls over a run
MaxStreamRuns == 1
\* number of lines the peer sends in one response
MaxLines == 2

\* what one requests.post(..., stream=True) can end in
StreamOutcomes == {"ok", "http_error", "read_timeout", "connect_timeout",
                   "connection_error"}
\* the lines response.iter_lines() can deliver: a JSON object with message
\* content, an empty (keep-alive) line, a JSON object without content, and a
\* line that is no JSON
StreamLineKinds == {[kind |-> "text", text |-> <<"a">>],
                    [kind |-> "text", text |-> <<"b">>],
                    [kind |-> "blank", text |-> <<>>],
                    [kind |-> "no_content", text |-> <<>>],
                    [kind |-> "bad_json", text |-> <<>>]}
\* how the iteration over the lines can break off
MidStreamFailures == {"read_timeout", "protocol_error", "bad_object", "bad_bytes"}
\* the texts chat_stream yields in place of an answer
StreamTimeoutText == <<"err_stream_timeout">>
\* f"Fehler: {str(e)}": the text names what was raised
StreamErrorText(cause) == <<"err_stream_exception", cause>>

\* a read timeout in the middle of the body raised as requests.Timeout
MidStreamRaisedAsTimeout(failure) == {"ReadTimeout", "Timeout", "Exception"}
\* the exception a failure in the middle of the body raises, with its base
\* classes: response.iter_lines() turns a read timeout on the body into
\* requests.ConnectionError and a broken transfer into ChunkedEncodingError;
\* json.loads of a line that is no object makes chunk.get raise
\* AttributeError; json.loads of bytes that are no UTF-8 raises
\* UnicodeDecodeError, which except json.JSONDecodeError does not take
MidStreamRaised(failure) ==
    CASE failure = "read_timeout"   -> {"ConnectionError", "Exception"}
      [] failure = "protocol_error" -> {"ChunkedEncodingError", "Exception"}
      [] failure = "bad_bytes"      -> {"UnicodeDecodeError", "ValueError",
                                        "Exception"}
      [] OTHER                      -> {"AttributeError", "Exception"}

\* the except clauses of chat_stream(), in source order
StreamExceptClauses == <<"Timeout", "Exception">>

\* the first except clause of chat_stream() that matches, 0 when none does
StreamHandler(raised) ==
    IF \E i \in DOMAIN StreamExceptClauses : StreamExceptClauses[i] \in raised
    THEN CHOOSE i \in DOMAIN StreamExceptClauses :
            /\ StreamExceptClauses[i] \in raised
            /\ \A j \in 1..(i - 1) : StreamExceptClauses[j] \notin raised
    ELSE 0

\* yield text, taken by the loop of LLMStreamWorker.run:
\* if chunk: self.full_response += chunk; self.chunk_received.emit(chunk)
Yield(text, err) ==
    /\ stream_yields' = Append(stream_yields,
          [text |-> text, req |-> stream_attempt, err |-> err,
           cancelled |-> cancel_requested])
    /\ worker_signals' = IF text # <<>>
                         THEN Append(worker_signals,
                                     [kind |-> "chunk_received", text |-> text])
                         ELSE worker_signals

\* time.sleep(retry_delay); retry_delay *= 1.5; continue
StreamRetry ==
    /\ stream_delay' = NextDelay(stream_delay)
    /\ stream_attempt' = stream_attempt + 1
    /\ stream_pc' = "post"
    /\ UNCHANGED <<stream_yields, worker_signals, stream_failed>>

\* an exception raised inside the try block and the clause that takes it
StreamExcept(raised, cause) ==
    IF StreamHandler(raised) = 0
    THEN \* no clause matches: the exception leaves the generator
         /\ stream_pc' = "raised"
         /\ stream_failed' = "raised"
         /\ UNCHANGED <<stream_delay, stream_attempt, stream_yields, worker_signals>>
    ELSE IF StreamHandler(raised) = 1 /\ stream_attempt < OLLAMA_RETRY_ATTEMPTS
    THEN StreamRetry
    ELSE IF StreamHandler(raised) = 1
    THEN \* yield "Stream Timeout"; return
         /\ Yield(StreamTimeoutText, TRUE)
         /\ stream_failed' = "timeout"
         /\ stream_pc' = "returned"
         /\ UNCHANGED <<stream_delay, stream_attempt>>
    ELSE \* except Exception: yield the error text; return
         /\ Yield(StreamErrorText(cause), TRUE)
         /\ stream_failed' = "exception"
         /\ stream_pc' = "returned"
         /\ UNCHANGED <<stream_delay, stream_attempt>>

\* LLMStreamWorker.run starts iterating self.ollama.chat_stream(...)
stream_begin ==
    /\ stream_pc \in {"idle", "emitted"}
    /\ stream_runs < MaxStreamRuns
    /\ stream_runs' = stream_runs + 1
    /\ stream_attempt' = 1
    /\ stream_delay' = OLLAMA_RETRY_DELAY * DelayScale
    /\ stream_lines' = 0
    /\ stream_posts' = <<>>
    /\ stream_yields' = <<>>
    /\ stream_failed' = NoneVal
    /\ response_open' = FALSE
    /\ cancel_requested' = FALSE
    /\ worker_signals' = <<>>
    /\ stream_pc' = IF OLLAMA_RETRY_ATTEMPTS >= 1 THEN "post" ELSE "returned"
    /\ UNCHANGED <<dbvars, clientvars, enq_log, crashed, uivars, chatcallvars, memvars,
                   guardvars, timeoutvars, writervars, backupvars>>

\* one iteration of the attempt loop up to the response: requests.post and
\* the branch its outcome takes
stream_post(outcome) ==
    /\ stream_pc = "post"
    /\ stream_posts' = Append(stream_posts,
          [outcome |-> outcome, yields_before |-> Len(stream_yields)])
    /\ stream_lines' = 0
    /\ IF outcome = "ok"
       THEN /\ stream_pc' = "lines"
            /\ response_open' = TRUE
            /\ UNCHANGED <<stream_delay, stream_attempt, stream_yields,
                           worker_signals, stream_failed>>
       ELSE IF outcome = "http_error"
       THEN /\ response_open' = TRUE
            /\ IF stream_attempt < OLLAMA_RETRY_ATTEMPTS
               THEN StreamRetry
               ELSE \* the last attempt falls out of the loop: nothing is yielded
                    /\ stream_pc' = "returned"
                    /\ stream_failed' = "http"
                    /\ UNCHANGED <<stream_delay, stream_attempt, stream_yields,
                                   worker_signals>>
       ELSE /\ StreamExcept(Raised(outcome), outcome)
            /\ UNCHANGED response_open
    /\ UNCHANGED <<stream_runs, cancel_requested, dbvars, clientvars, enq_log,
                   crashed, uivars, chatcallvars, memvars,
                   guardvars, timeoutvars, writervars, backupvars>>

\* one iteration of for line in response.iter_lines()
stream_line(line) ==
    /\ stream_pc = "lines"
    /\ stream_lines < MaxLines
    /\ stream_lines' = stream_lines + 1
    /\ IF line.kind = "text"
       THEN Yield(line.text, FALSE)
       ELSE UNCHANGED <<stream_yields, worker_signals>>
    /\ UNCHANGED <<stream_pc, stream_attempt, stream_delay, stream_runs,
                   stream_posts, stream_failed, response_open, cancel_requested,
                   dbvars, clientvars, enq_log, crashed, uivars, chatcallvars, memvars,
                   guardvars, timeoutvars, writervars, backupvars>>

\* the body ends: the loop over the lines is exhausted (the connection goes
\* back to the pool with the last byte), and chat_stream returns
stream_end ==
    /\ stream_pc = "lines"
    /\ stream_pc' = "returned"
    /\ response_open' = FALSE
    /\ UNCHANGED <<stream_attempt, stream_delay, stream_runs, stream_lines,
                   stream_posts, stream_yields, stream_failed, cancel_requested,
                   worker_signals, dbvars, clientvars, enq_log, crashed, uivars,
                   chatcallvars, memvars,
                   guardvars, timeoutvars, writervars, backupvars>>

\* the iteration over the lines raises
stream_break(failure) ==
    /\ stream_pc = "lines"
    /\ StreamExcept(MidStreamRaised(failure), failure)
    /\ UNCHANGED <<stream_runs, stream_lines, stream_posts, response_open,
                   cancel_requested, dbvars, clientvars, enq_log, crashed,
                   uivars, chatcallvars, memvars,
                   guardvars, timeoutvars, writervars, backupvars>>

\* LLMStreamWorker.run after its loop: self.finished.emit(self.full_response),
\* or self.error.emit(...) when the iteration raised
worker_finish ==
    /\ stream_pc \in {"returned", "raised"}
    /\ stream_pc' = "emitted"
    /\ worker_signals' = Append(worker_signals,
          IF stream_pc = "raised"
          THEN [kind |-> "error", text |-> <<>>]
          ELSE [kind |-> "finished",
                text |-> Flatten([i \in DOMAIN stream_yields |-> stream_yields[i].text])])
    /\ UNCHANGED <<stream_attempt, stream_delay, stream_runs, stream_lines,
                   stream_posts, stream_yields, stream_failed, response_open,
                   cancel_requested, dbvars, clientvars, enq_log, crashed, uivars,
                   chatcallvars, memvars,
                   guardvars, timeoutvars, writervars, backupvars>>

\* the owner of the worker asks for the stream to be cancelled
cancel_request ==
    /\ stream_pc \in {"post", "lines"}
    /\ ~cancel_requested
    /\ cancel_requested' = TRUE
    /\ UNCHANGED <<stream_pc, stream_attempt, stream_delay, stream_runs,
                   stream_lines, stream_posts, stream_yields, stream_failed,
                   response_open, worker_signals, dbvars, clientvars, enq_log,
                   crashed, uivars, chatcallvars, memvars,
                   guardvars, timeoutvars, writervars, backupvars>>

InitStream ==
    /\ stream_pc = "idle"
    /\ stream_attempt = 0
    /\ stream_delay = 0
    /\ stream_runs = 0
    /\ stream_lines = 0
    /\ stream_posts = <<>>
    /\ stream_yields = <<>>
    /\ stream_failed = NoneVal
    /\ response_open = FALSE
    /\ cancel_requested = FALSE
    /\ worker_signals = <<>>

(* ----------------------- ChatWindow, continued ------------------------ *)
\* the methods class LLMStreamWorker and class SearchWorker define
LLMStreamWorkerMethods == {"__init__", "run"}
SearchWorkerMethods == {"__init__", "run"}
\* the parameters RichFormatterWorker.__init__ accepts, and the keywords
\* _stop_generation and on_response_received pass to it
RichFormatterWorkerParams == {"text", "source", "confidence"}
RichFormatterWorkerCall == {"text", "source", "text_size"}
\* RichFormatterWorker(...) raises TypeError on an unexpected keyword
FormatterRaises == ~(RichFormatterWorkerCall \subseteq RichFormatterWorkerParams)

\* QThread.isRunning(): from start() until run() has returned
IsRunning(state) == state \in {"running", "emitted"}
LLMRunning == llm_worker # 0 /\ IsRunning(llm[llm_worker].state)
SearchRunning == search_worker # 0 /\ IsRunning(search[search_worker])

\* getattr(self, '_response_target_chat', self.current_chat)
TargetChat ==
    IF response_target_chat = NoneVal THEN current_chat ELSE response_target_chat

\* self._current_response = chunk (the accumulated text is overwritten)
AppendChunkOverwrite(resp, chunk) == chunk
\* self._current_response += chunk
AppendChunk(resp, chunk) == resp \o chunk

\* _start_llm_request(user_message, search_context); st is what the peer will
\* stream.  A running llm_worker or search_worker makes .cancel() raise
\* AttributeError, which the except clause hands to on_response_error.
start_llm_request(st) ==
    IF \/ LLMRunning /\ "cancel" \notin LLMStreamWorkerMethods
       \/ SearchRunning /\ "cancel" \notin SearchWorkerMethods
    THEN /\ is_waiting' = FALSE
         /\ input_enabled' = TRUE
         /\ UNCHANGED <<current_response, generation_id, response_target_chat,
                        llm_worker, llm>>
    ELSE /\ is_waiting' = TRUE
         /\ input_enabled' = FALSE
         /\ current_response' = <<>>
         /\ generation_id' = generation_id + 1
         /\ response_target_chat' = current_chat
         /\ llm_worker' = generation_id + 1
         /\ llm' = [llm EXCEPT ![generation_id + 1] =
               [state |-> "running", gen |-> generation_id + 1, turn |-> turn',
                peer |-> st, pos |-> 0, full |-> <<>>, delivered |-> <<>>,
                completed |-> <<>>]]

\* _stop_generation
stop_generation ==
    /\ stops' = stops \cup {[turn |-> turn, resp |-> current_response,
                             target |-> TargetChat, gen |-> generation_id]}
    /\ IF LLMRunning /\ "cancel" \notin LLMStreamWorkerMethods
       THEN \* self.llm_worker.cancel(): AttributeError leaves the slot
            /\ crashed' = TRUE
            /\ UNCHANGED <<is_waiting, input_enabled, write_queue, unfinished,
                           enq_log>>
       ELSE /\ is_waiting' = FALSE
            /\ input_enabled' = TRUE
            /\ IF current_response = <<>>
               THEN UNCHANGED <<crashed, write_queue, unfinished, enq_log>>
               ELSE IF FormatterRaises
               THEN \* RichFormatterWorker(partial, ..., text_size=...): TypeError
                    /\ crashed' = TRUE
                    /\ UNCHANGED <<write_queue, unfinished, enq_log>>
               ELSE \* self.db.save_message(target_chat, "assistant", clean + " [abgebrochen]")
                    /\ write_queue' = QueuePut(write_queue,
                          Job(TargetChat, "assistant",
                              remove_tags_from_response(current_response)
                                 \o AbortedMarker, turn))
                    /\ unfinished' = unfinished + 1
                    /\ enq_log' = Append(enq_log,
                          [job |-> Job(TargetChat, "assistant",
                                       remove_tags_from_response(current_response)
                                          \o AbortedMarker, turn),
                           by |-> 0])
                    /\ UNCHANGED crashed

\* the user types into message_input (a disabled QLineEdit takes no input)
type_message ==
    /\ ~crashed
    /\ input_enabled
    /\ ~message_input
    /\ message_input' = TRUE
    /\ UNCHANGED <<current_chat, is_waiting, current_response, generation_id,
                   response_target_chat, llm_worker, search_worker, llm, search,
                   main_events, saves, input_enabled, turn, turn_chat, accepted,
                   stops, interfered, user_actions, crashed, dbvars, clientvars,
                   enq_log, chatvars>>

\* send_message (Return in message_input, or the send / STOP button): returns
\* at once without a chat or with an empty message_input; stops the
\* generation while a turn is waiting; else starts a new turn
\* (needs_search: SearchEngine.needs_search(message) with search enabled)
send_message(needs_search, st) ==
    /\ ~crashed
    /\ current_chat # NoneVal
    /\ message_input
    /\ user_actions < MaxUserActions
    /\ user_actions' = user_actions + 1
    /\ IF is_waiting
       THEN /\ stop_generation
            /\ interfered' = TRUE
            /\ UNCHANGED <<current_response, generation_id, response_target_chat,
                           llm_worker, llm, search_worker, search, saves,
                           message_input, turn, turn_chat>>
       ELSE /\ turn < MaxTurns
            /\ turn' = turn + 1
            /\ turn_chat' = [turn_chat EXCEPT ![turn + 1] = current_chat]
            \* Thread(target=save_user_msg).start(); self.message_input.clear()
            /\ saves' = saves (+) SetToBag({Job(current_chat, "user", UserText, turn + 1)})
            /\ message_input' = FALSE
            /\ IF needs_search
               THEN /\ is_waiting' = TRUE
                    /\ search_worker' = turn + 1
                    /\ search' = [search EXCEPT ![turn + 1] = "running"]
                    /\ UNCHANGED <<current_response, generation_id,
                                   response_target_chat, llm_worker, llm,
                                   input_enabled>>
               ELSE /\ start_llm_request(st)
                    /\ UNCHANGED <<search_worker, search>>
            /\ UNCHANGED <<crashed, write_queue, unfinished, enq_log, stops,
                           interfered>>
    /\ UNCHANGED <<current_chat, main_events, accepted, chats, chat_seq,
                   messages, stop_event, conn, writer_pc, clientvars, chatvars>>

\* select_chat(chat_name)
select_chat(chat_name) ==
    /\ ~crashed
    /\ user_actions < MaxUserActions
    /\ user_actions' = user_actions + 1
    /\ IF is_waiting /\ chat_name # current_chat
          /\ \/ LLMRunning /\ "cancel" \notin LLMStreamWorkerMethods
             \/ SearchRunning /\ "cancel" \notin SearchWorkerMethods
       THEN \* .cancel() raises AttributeError, which leaves the slot
            /\ crashed' = TRUE
            /\ UNCHANGED <<current_chat, is_waiting, current_response, saves,
                           input_enabled>>
       ELSE /\ crashed' = crashed
            /\ current_chat' = chat_name
            /\ is_waiting' = FALSE
            /\ input_enabled' = TRUE
            /\ IF is_waiting /\ chat_name # current_chat /\ current_response # <<>>
               THEN \* save the partial answer in the old chat
                    /\ saves' = saves (+) SetToBag({Job(TargetChat, "assistant",
                          remove_tags_from_response(current_response)
                             \o AbortedMarker, turn)})
                    /\ current_response' = <<>>
               ELSE UNCHANGED <<saves, current_response>>
    /\ interfered' = (interfered \/ is_waiting)
    /\ UNCHANGED <<generation_id, response_target_chat, llm_worker, search_worker,
                   llm, search, main_events, message_input, turn, turn_chat,
                   accepted, stops, dbvars, clientvars, enq_log, chatvars>>

\* on_chunk_received(chunk): the signal at the head of the GUI thread's queue
on_chunk_received ==
    /\ ~crashed
    /\ main_events # <<>>
    /\ Head(main_events).kind = "chunk"
    /\ main_events' = Tail(main_events)
    /\ IF llm_worker # 0 /\ llm[llm_worker].gen # generation_id
       THEN \* stale check: return
            /\ llm' = [llm EXCEPT ![Head(main_events).sender].delivered =
                          Append(@, Head(main_events).text)]
            /\ UNCHANGED <<current_response, accepted>>
       ELSE /\ current_response' = AppendChunk(current_response, Head(main_events).text)
            /\ llm' = [llm EXCEPT ![Head(main_events).sender].delivered =
                          Append(@, Head(main_events).text)]
            /\ accepted' = accepted \cup
                  {[from |-> llm[Head(main_events).sender].gen,
                    gen |-> generation_id,
                    cancelled |-> \E s \in stops :
                                     s.turn = llm[Head(main_events).sender].turn]}
    /\ UNCHANGED <<current_chat, is_waiting, generation_id, response_target_chat,
                   llm_worker, search_worker, search, saves, message_input,
                   input_enabled, turn, turn_chat, stops, interfered,
                   user_actions, crashed, dbvars, clientvars, enq_log, chatvars>>

\* on_response_received(response): starts the thread that saves the answer;
\* RichFormatterWorker(..., text_size=...) then raises TypeError, which the
\* except clause hands to on_response_error
on_response_received ==
    /\ ~crashed
    /\ main_events # <<>>
    /\ Head(main_events).kind = "finished"
    /\ main_events' = Tail(main_events)
    /\ is_waiting' = FALSE
    /\ input_enabled' = TRUE
    /\ saves' = saves (+) SetToBag({Job(TargetChat, "assistant",
                      remove_tags_from_response(current_response),
                      llm[Head(main_events).sender].turn)})
    /\ llm' = [llm EXCEPT ![Head(main_events).sender].completed =
                  Append(@, Head(main_events).text)]
    /\ UNCHANGED <<current_chat, current_response, generation_id,
                   response_target_chat, llm_worker, search_worker, search,
                   message_input, turn, turn_chat, accepted, stops, interfered,
                   user_actions, crashed, dbvars, clientvars, enq_log, chatvars>>

\* on_search_finished(search_results) and on_search_error(error): both end in
\* _start_llm_request(self._pending_user_message, search_context)
on_search_finished(st) ==
    /\ ~crashed
    /\ main_events # <<>>
    /\ Head(main_events).kind = "search_finished"
    /\ main_events' = Tail(main_events)
    /\ turn' = turn
    /\ start_llm_request(st)
    /\ UNCHANGED <<current_chat, search_worker, search, saves, message_input,
                   turn_chat, accepted, stops, interfered, user_actions, crashed,
                   dbvars, clientvars, enq_log, chatvars>>

(* ------------------------------ workers ------------------------------- *)
\* LLMStreamWorker.run, loop body: full_response += chunk; chunk_received.emit
llm_emit_chunk(w) ==
    /\ ~crashed
    /\ llm[w].state = "running"
    /\ llm[w].pos < Len(llm[w].peer)
    /\ llm' = [llm EXCEPT ![w].pos = @ + 1,
                          ![w].full = @ \o llm[w].peer[llm[w].pos + 1]]
    /\ main_events' = Append(main_events,
          [kind |-> "chunk", sender |-> w, text |-> llm[w].peer[llm[w].pos + 1]])
    /\ UNCHANGED <<current_chat, is_waiting, current_response, generation_id,
                   response_target_chat, llm_worker, search_worker, search, saves,
                   message_input, input_enabled, turn, turn_chat, accepted, stops,
                   interfered, user_actions, crashed, dbvars, clientvars,
                   enq_log, chatvars>>

\* LLMStreamWorker.run, after the loop: self.finished.emit(self.full_response)
llm_emit_finished(w) ==
    /\ ~crashed
    /\ llm[w].state = "running"
    /\ llm[w].pos = Len(llm[w].peer)
    /\ llm' = [llm EXCEPT ![w].state = "emitted"]
    /\ main_events' = Append(main_events,
          [kind |-> "finished", sender |-> w, text |-> llm[w].full])
    /\ UNCHANGED <<current_chat, is_waiting, current_response, generation_id,
                   response_target_chat, llm_worker, search_worker, search, saves,
                   message_input, input_enabled, turn, turn_chat, accepted, stops,
                   interfered, user_actions, crashed, dbvars, clientvars,
                   enq_log, chatvars>>

\* run() has returned: the thread is no longer running
llm_exit(w) ==
    /\ ~crashed
    /\ llm[w].state = "emitted"
    /\ llm' = [llm EXCEPT ![w].state = "done"]
    /\ UNCHANGED <<current_chat, is_waiting, current_response, generation_id,
                   response_target_chat, llm_worker, search_worker, search,
                   main_events, saves, message_input, input_enabled, turn,
                   turn_chat, accepted, stops, interfered, user_actions, crashed,
                   dbvars, clientvars, enq_log, chatvars>>

\* SearchWorker.run: self.finished.emit(results) or self.error.emit(...)
search_emit(w) ==
    /\ ~crashed
    /\ search[w] = "running"
    /\ search' = [search EXCEPT ![w] = "emitted"]
    /\ main_events' = Append(main_events,
          [kind |-> "search_finished", sender |-> w, text |-> <<>>])
    /\ UNCHANGED <<current_chat, is_waiting, current_response, generation_id,
                   response_target_chat, llm_worker, search_worker, llm, saves,
                   message_input, input_enabled, turn, turn_chat, accepted, stops,
                   interfered, user_actions, crashed, dbvars, clientvars,
                   enq_log, chatvars>>

\* SearchWorker.run has returned
search_exit(w) ==
    /\ ~crashed
    /\ search[w] = "emitted"
    /\ search' = [search EXCEPT ![w] = "done"]
    /\ UNCHANGED <<current_chat, is_waiting, current_response, generation_id,
                   response_target_chat, llm_worker, search_worker, llm,
                   main_events, saves, message_input, input_enabled, turn,
                   turn_chat, accepted, stops, interfered, user_actions, crashed,
                   dbvars, clientvars, enq_log, chatvars>>

\* a thread started by send_message, select_chat or on_response_received runs
\* self.db.save_message(chat, role, content): the chat is found or created and
\* the job is put into the write queue
save_thread_run(job) ==
    /\ ~crashed
    /\ BagIn(job, saves)
    /\ saves' = saves (-) SetToBag({job})
    /\ InsertChat(job.chat)
    /\ write_queue' = QueuePut(write_queue, job)
    /\ unfinished' = unfinished + 1
    /\ enq_log' = Append(enq_log, [job |-> job, by |-> 0])
    /\ conn' = TRUE
    /\ UNCHANGED <<current_chat, is_waiting, current_response, generation_id,
                   response_target_chat, llm_worker, search_worker, llm, search,
                   main_events, message_input, input_enabled, turn, turn_chat,
                   accepted, stops, interfered, user_actions, crashed, messages,
                   stop_event, writer_pc, clientvars, chatvars>>

(* --------------------------- specifications ---------------------------- *)
InitDB ==
    /\ chats = {}
    /\ chat_seq = 0
    /\ messages = <<>>
    /\ write_queue = <<>>
    /\ unfinished = 0
    /\ stop_event = FALSE
    /\ conn = TRUE
    /\ writer_pc = "get"
    /\ enq_log = <<>>
    /\ crashed = FALSE

InitClients ==
    /\ caller = [t \in Callers |-> [pc |-> "idle", job |-> Sentinel]]
    /\ calls = 0
    /\ closer = [pc |-> "idle", started |-> 0, returned |-> 0]
    /\ create_log = <<>>

\* ChatWindow.__init__; load_chats() selects the first chat when there is one
InitUI ==
    /\ current_chat = IF chats = {} THEN NoneVal
                      ELSE (CHOOSE r \in chats : \A q \in chats : r.id <= q.id).name
    /\ is_waiting = FALSE
    /\ current_response = <<>>
    /\ generation_id = 0
    /\ response_target_chat = NoneVal
    /\ llm_worker = 0
    /\ search_worker = 0
    /\ llm = [w \in 1..MaxTurns |->
                [state |-> "none", gen |-> 0, turn |-> 0, peer |-> <<>>,
                 pos |-> 0, full |-> <<>>, delivered |-> <<>>,
                 completed |-> <<>>]]
    /\ search = [w \in 1..MaxTurns |-> "none"]
    /\ main_events = <<>>
    /\ saves = EmptyBag
    /\ message_input = FALSE
    /\ input_enabled = TRUE
    /\ turn = 0
    /\ turn_chat = [k \in 1..MaxTurns |-> NoneVal]
    /\ accepted = {}
    /\ stops = {}
    /\ interfered = FALSE
    /\ user_actions = 0

vars == <<dbvars, clientvars, enq_log, crashed, chatvars, uivars>>

\* the Database used by concurrent callers, on a fresh store
Init == InitDB /\ InitClients /\ InitChat /\ InitStream /\ InitMemory /\ InitGuard /\ InitTimeout /\ InitBackup /\ InitWriter /\ InitUI

Next ==
    \/ \E t \in Callers, name \in ChatNames : create_chat(t, name)
    \/ \E t \in Callers, chat \in ChatNames, m \in Submissions :
          save_message_begin(t, chat, m.role, m.content)
    \/ \E t \in Callers : save_message_create(t)
    \/ \E t \in Callers : save_message_retry(t)
    \/ \E t \in Callers : save_message_put(t)
    \/ writer_loop
    \/ close_put
    \/ close_finish

Spec == Init /\ [][Next]_vars

\* OllamaClient.chat against a peer whose every answer is an input
NextChat ==
    \/ chat_begin
    \/ \E outcome \in Outcomes : chat_attempt(outcome)

SpecChat == Init /\ [][NextChat]_vars

\* LLMStreamWorker.run over OllamaClient.chat_stream against a peer whose
\* every answer, line and failure is an input
NextStream ==
    \/ stream_begin
    \/ \E outcome \in StreamOutcomes : stream_post(outcome)
    \/ \E line \in StreamLineKinds : stream_line(line)
    \/ stream_end
    \/ \E failure \in MidStreamFailures : stream_break(failure)
    \/ worker_finish
    \/ cancel_request

SpecStream == Init /\ [][NextStream]_vars

\* the memory and delete operations of a Database that holds one chat with
\* one message, up to MaxMemory memory rows and any number of backups
InitStore ==
    /\ chats = {[id |-> 1, name |-> "A"]}
    /\ chat_seq = 1
    /\ messages = <<[chat_id |-> 1, role |-> "user", content |-> <<"a">>, turn |-> 0]>>
    /\ write_queue = <<>>
    /\ unfinished = 0
    /\ stop_event = FALSE
    /\ conn = TRUE
    /\ writer_pc = "get"
    /\ enq_log = <<>>
    /\ crashed = FALSE
    /\ \E k \in 0..MaxMemory :
          /\ memory = [i \in 1..k |-> i]
          /\ memory_seq = k
    /\ backups \in {0, BackupsKept}
    /\ last_op = [op |-> NoneVal, arg |-> 0, backup |-> "none", before |-> <<>>,
                  after |-> <<>>, ret |-> 0, rows_before |-> 0]
    /\ InitClients /\ InitChat /\ InitStream /\ InitGuard /\ InitTimeout /\ InitBackup /\ InitWriter /\ InitUI

NextStore ==
    \/ add_memory
    \/ \E memory_id \in 1..(MaxMemory + 1) : delete_memory_by_id(memory_id)
    \/ \E outcome \in BackupOutcomes : clear_memory(outcome)
    \/ \E max_entries \in 0..MaxTrim : trim_old_memory(max_entries)
    \/ \E chat_name \in ChatNames, outcome \in BackupOutcomes :
          delete_chat(chat_name, outcome)

SpecStore == InitStore /\ [][NextStore]_vars

\* the Database with every guarded section entered and left in separate
\* steps, next to close()
NextGuard ==
    \/ \E t \in Callers, chat \in ChatNames, sub \in Submissions :
          guard_call(t, "save_message", Job(chat, sub.role, sub.content, 0))
    \/ \E t \in Callers : guard_call(t, "add_memory", Sentinel)
    \/ \E t \in Callers : guard_enter(t)
    \/ \E t \in Callers : guard_apply(t)
    \/ \E t \in Callers : guard_wake(t)
    \/ \E t \in Callers : guard_put(t)
    \/ guard_writer_take
    \/ guard_writer_apply
    \/ close_put
    \/ close_finish

SpecGuard == Init /\ [][NextGuard]_vars

\* the Database used by concurrent callers who also delete and rename
\* chats, with writes that can fail
NextWriter ==
    \/ \E t \in Callers, chat \in ChatNames, sub \in Submissions :
          save_message_begin(t, chat, sub.role, sub.content)
    \/ \E t \in Callers : save_message_create(t)
    \/ \E t \in Callers : save_message_retry(t)
    \/ \E t \in Callers : save_message_put(t)
    \/ \E outcome \in WriteOutcomes : writer_step(outcome)
    \/ \E chat_name \in ChatNames, outcome \in BackupOutcomes :
          delete_chat(chat_name, outcome)
    \/ \E old_name, new_name \in ChatNames : rename_chat(old_name, new_name)
    \/ close_put
    \/ close_finish

SpecWriter == Init /\ [][NextWriter]_vars

\* _backup_database called again and again on a directory that is empty or
\* holds BackupsKept backups, with a clock that can stand still within a
\* second and can be set back
InitBackupDir ==
    /\ InitDB /\ InitClients /\ InitChat /\ InitStream /\ InitMemory
    /\ InitGuard /\ InitTimeout /\ InitWriter /\ InitUI
    /\ \E k \in {0, BackupsKept} :
          backup_dir = [files |-> {[name |-> i, made |-> i] : i \in 1..k},
                        made |-> k, clock |-> k, calls |-> 0, pruned |-> {},
                        last |-> 0, unlink_failed |-> FALSE,
                        clock_back |-> FALSE]

NextBackup ==
    \E step \in {-1, 0, 1}, outcome \in BackupOutcomes, unlink_fails \in BOOLEAN :
        backup_run(backup_dir.clock + step, outcome, unlink_fails)

SpecBackup == InitBackupDir /\ [][NextBackup]_vars

\* _get_timeout on every model identity of ModelIds
InitResolve ==
    /\ InitDB /\ InitClients /\ InitChat /\ InitStream /\ InitMemory
    /\ InitGuard /\ InitBackup /\ InitWriter /\ InitUI
    /\ timeout_model \in ModelIds
    /\ timeout_result = 0

NextResolve == resolve_timeout

SpecResolve == InitResolve /\ [][NextResolve]_vars

\* the chat window over a store that holds the chats A and B
InitWindow ==
    /\ chats = {[id |-> 1, name |-> "A"], [id |-> 2, name |-> "B"]}
    /\ chat_seq = 2
    /\ messages = <<>>
    /\ write_queue = <<>>
    /\ unfinished = 0
    /\ stop_event = FALSE
    /\ conn = TRUE
    /\ writer_pc = "get"
    /\ enq_log = <<>>
    /\ crashed = FALSE
    /\ InitClients /\ InitChat /\ InitStream /\ InitMemory /\ InitGuard /\ InitTimeout /\ InitBackup /\ InitWriter /\ InitUI

NextUI ==
    \/ type_message
    \/ \E ns \in BOOLEAN, st \in Streams : send_message(ns, st)
    \/ \E c \in ChatNames : select_chat(c)
    \/ on_chunk_received
    \/ on_response_received
    \/ \E st \in Streams : on_search_finished(st)
    \/ \E w \in 1..MaxTurns : llm_emit_chunk(w)
    \/ \E w \in 1..MaxTurns : llm_emit_finished(w)
    \/ \E w \in 1..MaxTurns : llm_exit(w)
    \/ \E w \in 1..MaxTurns : search_emit(w)
    \/ \E w \in 1..MaxTurns : search_exit(w)
    \/ \E job \in BagToSet(saves) : save_thread_run(job)
    \/ writer_loop

SpecUI == InitWindow /\ [][NextUI]_vars

(* ============================== properties ============================= *)
\* the (role, content) pairs of a sequence of put() records, for one chat
PutsFor(log, name) ==
    [i \in 1..Len(SelectSeq2(log, {e \in Range(log) : e.job.chat = name})) |->
        [role |-> SelectSeq2(log, {e \in Range(log) : e.job.chat = name})[i].job.role,
         content |-> SelectSeq2(log, {e \in Range(log) : e.job.chat = name})[i].job.content]]

IsPrefix(s, t) == Len(s) <= Len(t) /\ SubSeq(t, 1, Len(s)) = s

\* the put() records that precede the first sentinel
BeforeSentinel ==
    IF \E i \in DOMAIN enq_log : enq_log[i].job = Sentinel
    THEN SubSeq(enq_log, 1,
            (CHOOSE i \in DOMAIN enq_log :
                /\ enq_log[i].job = Sentinel
                /\ \A j \in 1..(i - 1) : enq_log[j].job # Sentinel) - 1)
    ELSE enq_log

C9_SecondCloseReturns ==
    ~(/\ closer.returned >= 1
      /\ closer.pc = "join"
      /\ writer_pc = "exited"
      /\ unfinished > 0)

ChatNameOf(id) == (CHOOSE r \in chats : r.id = id).name

\* the assistant jobs of turn k that a started thread has yet to submit
PendingSaves(k) ==
    [j \in {x \in BagToSet(saves) : x.role = "assistant" /\ x.turn = k} |-> saves[j]]
\* the positions of the assistant jobs of turn k in the write queue
QueuedAnswers(k) ==
    {i \in DOMAIN write_queue :
        write_queue[i].role = "assistant" /\ write_queue[i].turn = k}
\* the positions of the assistant rows of turn k in the store
StoredAnswers(k) ==
    {i \in DOMAIN messages : messages[i].role = "assistant" /\ messages[i].turn = k}

\* C2 as stated: a chunk is appended to _current_response only when the
\* worker that emitted it carries the generation id that is current at
\* delivery: a chunk of an older generation is dropped.
C2_StaleChunkDropped ==
    \A e \in accepted : e.from = e.gen

\* C3 as stated: every assistant row of a turn is stored in the chat that
\* was current when send_message started the turn, whatever select_chat
\* calls came in between.
C3_TurnTargetFrozen ==
    \A i \in DOMAIN messages :
        (messages[i].role = "assistant" /\ messages[i].turn > 0) =>
            ChatNameOf(messages[i].chat_id) = turn_chat[messages[i].turn]

\* C4 as stated: when _stop_generation has run with a non-empty
\* _current_response, an assistant job for the response target, holding the
\* accumulated text followed by the aborted marker, has been put into the
\* write queue.
C4_CancelPersistsPartial ==
    \A s \in stops :
        s.resp # <<>> =>
            \E i \in DOMAIN enq_log :
                enq_log[i].job = Job(s.target, "assistant",
                                     remove_tags_from_response(s.resp) \o AbortedMarker,
                                     s.turn)

\* C5 as stated: no chunk is appended to _current_response once the turn of
\* the worker that emitted it has been stopped.
C5_NoChunkAfterCancel ==
    \A e \in accepted : ~e.cancelled

C11_CancelledTurnStaysIdle ==
    \A s \in stops :
        \A w \in 1..MaxTurns :
            (llm[w].state # "none" /\ llm[w].turn = s.turn) => llm[w].gen <= s.gen

\* C12 as stated: when the stream has failed with the client's retries
\* exhausted, the worker reports the failure through its error signal (the
\* only way into on_response_error) rather than as answer text.
C12_FailureEmitsError ==
    (stream_pc = "emitted" /\ stream_failed # NoneVal)
        => \E i \in DOMAIN worker_signals : worker_signals[i].kind = "error"

\* C19: once a chunk of a response has been yielded, chat_stream sends no
\* further request: every request is sent with nothing yielded yet, and all
\* the chunks of a run come from one single request.
C19_NoRetryAfterFirstChunk ==
    /\ \A i \in DOMAIN stream_posts : stream_posts[i].yields_before = 0
    /\ \A i, j \in DOMAIN stream_yields :
          (~stream_yields[i].err /\ ~stream_yields[j].err)
              => stream_yields[i].req = stream_yields[j].req

\* C19's case: a response broke off after a chunk had been yielded, and the
\* stream has ended
C19_Witness ==
    /\ stream_pc \in {"returned", "emitted"}
    /\ stream_failed = "exception"
    /\ \E i \in DOMAIN stream_yields : ~stream_yields[i].err
    /\ Len(stream_posts) = 1

\* C20 as stated: no chunk is yielded once cancellation has been asked for,
\* and when chat_stream has ended, on whatever path, the response it received
\* has been released.
C20_CancelPolledAndReleased ==
    /\ \A i \in DOMAIN stream_yields : ~stream_yields[i].cancelled
    /\ stream_pc \in {"returned", "raised", "emitted"} => ~response_open

\* C13 as stated: every call that deletes rows (delete_chat, clear_memory,
\* delete_memory_by_id) has attempted a backup of the store before it
\* deleted; whether the backup succeeded or failed, the deletion was done.
C13_BackupBeforeDelete ==
    last_op.op \in {"delete_chat", "clear_memory", "delete_memory_by_id"}
        => last_op.backup \in BackupOutcomes

\* C14: trim_old_memory(n) on c rows deletes exactly max(0, c - n) rows and
\* returns that number; the rows left are the min(c, n) rows with the
\* largest ids, in order, and nothing is deleted when c <= n.
C14_TrimDeletesOldest ==
    last_op.op = "trim_old_memory" =>
        /\ Len(last_op.before) - Len(last_op.after)
              = Max(0, Len(last_op.before) - last_op.arg)
        /\ last_op.ret = Max(0, Len(last_op.before) - last_op.arg)
        /\ Len(last_op.after) = Min(Len(last_op.before), last_op.arg)
        /\ \A i \in 1..Len(last_op.after) :
              last_op.after[i] = last_op.before[
                  Len(last_op.before) - Len(last_op.after) + i]
        /\ Len(last_op.before) <= last_op.arg => last_op.after = last_op.before

\* C14's case: a trim that deleted some rows and left some
C14_Witness ==
    /\ last_op.op = "trim_old_memory"
    /\ last_op.ret > 0
    /\ last_op.after # <<>>
    /\ memory = last_op.after

C16_CompletesDuringWrite ==
    \A t \in Callers :
        (thread[t].op = "save_message" /\ thread[t].pc # "out"
            /\ writer_pc = "inside") => thread[t].pc = "put"

\* C17 as stated: a thread inside a guarded section owns the guard, no two
\* threads are inside at once, and the connection is open for as long as a
\* thread is inside.
C17_ExclusiveAndOpen ==
    /\ \A t \in Callers : thread[t].pc = "inside" => (db_lock = t /\ conn)
    /\ writer_pc = "inside" => (db_lock = WriterThread /\ conn)

C23_UnparsableLineSkipped ==
    \A i \in DOMAIN stream_yields :
        stream_yields[i].text # StreamErrorText("bad_bytes")

\* C30 as stated: when every attempt of chat_stream got a non-200 status,
\* the run of the worker surfaces a failure: it emits error, or the text it
\* finishes with describes the failure; it never finishes with an empty
\* answer.
C30_HttpFailureSurfaces ==
    (stream_pc = "emitted" /\ stream_failed = "http") =>
        \E i \in DOMAIN worker_signals :
            \/ worker_signals[i].kind = "error"
            \/ worker_signals[i].kind = "finished" /\ worker_signals[i].text # <<>>

C28_NoJobLeftBehind ==
    writer_pc = "exited" =>
        \A i \in DOMAIN write_queue : write_queue[i] = Sentinel

\* the put() records of jobs, without the sentinels
JobPuts == SelectSeq2(enq_log, {e \in Range(enq_log) : e.job # Sentinel})
\* the entries of write_log whose write was committed
Committed == SelectSeq2(write_log, {e \in Range(write_log) : e.outcome = "ok"})

\* C21: a job whose write fails never stops the writer: the writer leaves
\* its loop only on the sentinel or on the stop event; the jobs it takes
\* are the jobs put, in put order, whatever became of the jobs before; the
\* unfinished-task count goes down once per job taken; and (as long as no
\* chat was deleted or renamed) the rows stored are exactly the jobs whose
\* write did not fail, in order.
C21_FailingJobSkipped ==
    /\ writer_pc = "exited" =>
          \/ stop_event
          \/ \E i \in DOMAIN enq_log :
                enq_log[i].job = Sentinel /\ Sentinel \notin Range(write_queue)
    /\ Len(write_log) <= Len(JobPuts)
    /\ \A i \in DOMAIN write_log : write_log[i].job = JobPuts[i].job
    /\ unfinished = Len(write_queue)
    /\ last_op.op = NoneVal =>
          /\ Len(messages) = Len(Committed)
          /\ \A i \in DOMAIN messages :
                /\ messages[i].role = Committed[i].job.role
                /\ messages[i].content = Committed[i].job.content

\* C21's case: a write failed, the write of a later job was committed, and
\* the writer is still in its loop
C21_Witness ==
    /\ writer_pc = "get"
    /\ last_op.op = NoneVal
    /\ \E i, j \in DOMAIN write_log :
          /\ i < j
          /\ write_log[i].outcome # "ok"
          /\ write_log[j].outcome = "ok"
    /\ Len(messages) >= 1

\* C22 as stated: a write that the store refused as busy was retried: a job
\* dropped for a busy store has been attempted more than once.
C22_BusyWriteRetried ==
    \A i \in DOMAIN write_log :
        write_log[i].outcome = "busy" => write_log[i].attempts > 1

\* C27 as stated: the writer never creates a conversation when it applies
\* a job.
C27_WriterNeverCreates ==
    \A i \in DOMAIN write_log : ~write_log[i].created

\* the put() records of the assistant jobs of turn k
AssistantPuts(k) ==
    {i \in DOMAIN enq_log :
        /\ enq_log[i].job # Sentinel
        /\ enq_log[i].job.role = "assistant"
        /\ enq_log[i].job.turn = k}
\* the put() records of the user jobs of turn k
UserPuts(k) ==
    {i \in DOMAIN enq_log :
        /\ enq_log[i].job # Sentinel
        /\ enq_log[i].job.role = "user"
        /\ enq_log[i].job.turn = k}

\* C25 as stated: each turn persists at most one assistant message: counting
\* the save threads that were started and the jobs that were put into the
\* write queue, a turn has at most one assistant message, so a finished
\* event handled after the cancel saved the aborted text adds no second one.
C25_OneAssistantPerTurn ==
    \A k \in 1..MaxTurns :
        BagCardinality(PendingSaves(k)) + Cardinality(AssistantPuts(k)) <= 1

\* C29 as stated: within one turn the user message is put into the write
\* queue before the assistant message of the turn, whatever order the save
\* threads of send_message and on_response_received run in (the user neither
\* stopped the turn nor switched the chat).
C29_UserBeforeAssistant ==
    interfered = FALSE =>
        \A k \in 1..MaxTurns :
            \A i \in AssistantPuts(k) : \E j \in UserPuts(k) : j < i

\* C26 as stated: when a finished event is handled whose sender is not the
\* worker of the current generation, the turn in progress goes on: the
\* window stays waiting and no save thread is started for the text of the
\* current generation.
C26_StaleFinishIgnored ==
    [][(/\ main_events # <<>>
        /\ Head(main_events).kind = "finished"
        /\ main_events' = Tail(main_events)
        /\ llm[Head(main_events).sender].gen # generation_id)
          => (is_waiting' = is_waiting /\ saves' = saves)]_vars

====
